---------------------------- MODULE Spec2Model ----------------------------
(***************************************************************************)
(* Model of the dashboard's data pipeline.                                 *)
(*   data.py : module-level script that loads three worksheets and         *)
(*             normalizes them (dates, numbers, filters, deduplication).   *)
(*   app.py  : imports the three tables (with an empty-table fallback),    *)
(*             and prepare_data(start_month, end_month, aggregation_type)  *)
(*             builds the grouped, monthly and revenue rollups, which      *)
(*             format_table_data turns into text for the page.             *)
(* Tables are sequences of records (row order matters for deduplication    *)
(* and sorting).  Floating point cells are tagged records so that NaN and  *)
(* the infinities are values of the model.                                 *)
(***************************************************************************)
EXTENDS Integers, Sequences, FiniteSets, TLC

VARIABLES
    pc,                      \* position of the session (data.py, then app.py)
    raw_attribution,         \* rows returned by get_all_records(), data.py:33
    raw_orders,              \* data.py:60
    raw_notifications,       \* data.py:85
    data_bound,              \* names bound in data.py's module namespace
    data_attribution_data,   \* data.py global attribution_data
    data_orders_data,        \* data.py global orders_data
    data_notifications_data, \* data.py global notifications_data
    data_pricing_sent_data,  \* data.py global pricing_sent_data
    import_error,            \* exception that ended data.py, "" if none
    attribution_data,        \* app.py global attribution_data
    orders_data,             \* app.py global orders_data
    pricing_sent_data,       \* app.py global pricing_sent_data
    diagnostics,             \* st.error / st.warning messages shown
    query,                   \* arguments of the last prepare_data call
    result,                  \* how the last prepare_data call ended
    agg_data,                \* prepare_data local agg_data at exit
    monthly_agg,             \* prepare_data local monthly_agg at exit
    revenue_by_yearmonth,    \* prepare_data local revenue_by_yearmonth at exit
    display,                 \* what the page handed to st.dataframe, app.py:306, 313
    session_tables           \* history: the three tables as the import bound them

vars == <<pc, raw_attribution, raw_orders, raw_notifications, data_bound,
          data_attribution_data, data_orders_data, data_notifications_data,
          data_pricing_sent_data, import_error, attribution_data, orders_data,
          pricing_sent_data, diagnostics, query, result, agg_data, monthly_agg,
          revenue_by_yearmonth, display, session_tables>>

rawVars == <<raw_attribution, raw_orders, raw_notifications>>
dataVars == <<data_bound, data_attribution_data, data_orders_data,
              data_notifications_data, data_pricing_sent_data, import_error>>
appVars == <<attribution_data, orders_data, pricing_sent_data>>
queryVars == <<query, result, agg_data, monthly_agg, revenue_by_yearmonth, display>>
historyVars == <<session_tables>>

(***************************************************************************)
(* Bound of the model: number of rows read from the three worksheets in    *)
(* one run of data.py.                                                     *)
(***************************************************************************)
MaxRows == 4

(***************************************************************************)
(* Floating point cells.  v is the integer value; for a column rounded to  *)
(* two decimals v counts hundredths.                                       *)
(***************************************************************************)
Num(n) == [k |-> "num", v |-> n]
NaN == [k |-> "nan", v |-> 0]
Inf == [k |-> "inf", v |-> 0]
NegInf == [k |-> "-inf", v |-> 0]

IsNum(x) == x.k = "num"

\* Series.fillna(0): only NaN is replaced, the infinities stay.
FillNa0(x) == IF x = NaN THEN Num(0) ELSE x

\* Series.replace([inf, -inf], 0)
ReplaceInf0(x) == IF x \in {Inf, NegInf} THEN Num(0) ELSE x

\* round half to even of n / d for d > 0 (numpy.round)
RoundDiv(n, d) ==
    LET q == n \div d
        r == n % d
    IN  IF 2 * r < d THEN q
        ELSE IF 2 * r > d THEN q + 1
        ELSE IF q % 2 = 0 THEN q ELSE q + 1

\* (a / b).round(decimals) on float cells; scale is 10^decimals.
\* Division by zero gives NaN for 0/0 and a signed infinity otherwise.
DivRound(a, b, scale) ==
    IF ~IsNum(a) \/ ~IsNum(b) THEN NaN
    ELSE IF b.v = 0
         THEN IF a.v = 0 THEN NaN ELSE IF a.v > 0 THEN Inf ELSE NegInf
    ELSE IF b.v > 0 THEN Num(RoundDiv(scale * a.v, b.v))
    ELSE Num(RoundDiv(-(scale * a.v), -(b.v)))

\* a - b on float cells
Sub(a, b) == IF IsNum(a) /\ IsNum(b) THEN Num(a.v - b.v) ELSE NaN

\* int(x * 100) raises OverflowError on an infinity and ValueError on NaN.
IntRaises(x) == ~IsNum(x)

(***************************************************************************)
(* Dates and YearMonth labels.                                             *)
(***************************************************************************)
NaT == [y |-> 0, m |-> 0, d |-> 0]
Date(y, m, d) == [y |-> y, m |-> m, d |-> d]

\* pd.to_datetime(col, format="mixed", errors="coerce") on the cell texts
\* used in this model; anything else is unparseable and becomes NaT.
ToDatetimeMixed(s) ==
    CASE s = "2024-01-15" -> Date(2024, 1, 15)
      [] s = "01/28/2024" -> Date(2024, 1, 28)
      [] s = "2024-02-20" -> Date(2024, 2, 20)
      [] s = "2023-04-01 10:30:00" -> Date(2023, 4, 1)
      [] s = "2019-12-31" -> Date(2019, 12, 31)
      [] OTHER -> NaT

MonthAbbr == <<"Jan", "Feb", "Mar", "Apr", "May", "Jun",
               "Jul", "Aug", "Sep", "Oct", "Nov", "Dec">>

\* A YearMonth label "<b>. <y>", kept as its two parts; NullLabel is the
\* float nan that strftime leaves for NaT.
Label(b, y) == [b |-> b, y |-> y]
NullLabel == [b |-> "", y |-> 0]

\* Series.dt.strftime("%b. %Y")
StrftimeYearMonth(dt) ==
    IF dt = NaT THEN NullLabel ELSE Label(MonthAbbr[dt.m], dt.y)

\* pd.to_datetime(label, format="%b. %Y", errors="coerce")
ToDatetimeYearMonth(l) ==
    IF \E i \in 1..12 : MonthAbbr[i] = l.b
    THEN Date(l.y, CHOOSE i \in 1..12 : MonthAbbr[i] = l.b, 1)
    ELSE NaT

\* Timestamp comparison; every comparison with NaT is False.
DateLess(a, b) ==
    /\ a # NaT
    /\ b # NaT
    /\ \/ a.y < b.y
       \/ a.y = b.y /\ a.m < b.m
       \/ a.y = b.y /\ a.m = b.m /\ a.d < b.d

\* str comparison of two labels: month abbreviation first, then the year.
AbbrAlphabetical == <<"Apr", "Aug", "Dec", "Feb", "Jan", "Jul",
                      "Jun", "Mar", "May", "Nov", "Oct", "Sep">>
AbbrRank(b) == CHOOSE i \in 1..12 : AbbrAlphabetical[i] = b
LabelStrLess(a, b) ==
    \/ AbbrRank(a.b) < AbbrRank(b.b)
    \/ a.b = b.b /\ a.y < b.y

(***************************************************************************)
(* Numeric cells.  pd.to_numeric(col, errors="coerce") on the cell texts   *)
(* used in this model; a non-numeric or blank cell becomes NaN.            *)
(***************************************************************************)
ToNumeric(s) ==
    CASE s = "0" -> Num(0)
      [] s = "1" -> Num(1)
      [] s = "2" -> Num(2)
      [] s = "3" -> Num(3)
      [] s = "4" -> Num(4)
      [] s = "5" -> Num(5)
      [] s = "10" -> Num(10)
      [] s = "20" -> Num(20)
      [] s = "120" -> Num(120)
      [] OTHER -> NaN

(***************************************************************************)
(* Generic table helpers.                                                  *)
(***************************************************************************)
Range(s) == {s[i] : i \in 1..Len(s)}
Map(s, F(_)) == [i \in 1..Len(s) |-> F(s[i])]
Filter(s, P(_)) == SelectSeq(s, P)

RECURSIVE SetToSeq(_)
SetToSeq(S) ==
    IF S = {} THEN <<>>
    ELSE LET x == CHOOSE x \in S : TRUE IN <<x>> \o SetToSeq(S \ {x})

\* Series.sum(): NaN cells are skipped, an empty sum is 0.
RECURSIVE SumCells(_)
SumCells(s) ==
    IF s = <<>> THEN 0
    ELSE (IF IsNum(Head(s)) THEN Head(s).v ELSE 0) + SumCells(Tail(s))
SumNum(s) == Num(SumCells(s))

\* pd.Series.unique(): distinct values in order of first appearance.
RECURSIVE Unique(_)
Unique(s) ==
    IF s = <<>> THEN <<>>
    ELSE LET init == Unique(SubSeq(s, 1, Len(s) - 1))
             x == s[Len(s)]
         IN  IF x \in Range(init) THEN init ELSE Append(init, x)

\* sorted(labels) raises TypeError when the list mixes str and float nan.
SortedStrRaises(labels) ==
    /\ NullLabel \in Range(labels)
    /\ \E l \in Range(labels) : l # NullLabel


(***************************************************************************)
(* Worksheet contents.  Every cell is the text of the sheet cell.          *)
(***************************************************************************)
AttrRow(tp, src, camp, inq, ps, ord, paid, tja, cc) ==
    [TimePeriod |-> tp, Source |-> src, CampaignName |-> camp,
     Inquiries |-> inq, PricingSent |-> ps, Orders |-> ord, PaidOrders |-> paid,
     TotalJobAmount |-> tja, CampaignCost |-> cc]

AttrRowPool ==
    { AttrRow("2024-01-15", "google", "N/A", "4", "2", "1", "1", "20", "5"),
      AttrRow("2024-02-20", "organic", "N/A", "0", "0", "1", "0", "10", "0"),
      AttrRow("2023-04-01 10:30:00", "google", "spring", "2", "1", "0", "0", "abc", "3"),
      AttrRow("garbage", "facebook", "N/A", "1", "1", "1", "1", "5", "1"),
      AttrRow("01/28/2024", "google", "spring", "", "1", "1", "0", "10", "2"),
      AttrRow("2024-02-20", "facebook", "N/A", "0", "0", "0", "0", "10", "5") }

OrderRow(ts, price, disc, status) ==
    [timeslot_datetime |-> ts, ServicesPrice |-> price, discount_amount |-> disc,
     status |-> status]

OrderRowPool ==
    { OrderRow("2023-04-01 10:30:00", "120", "20", "COMPLETED"),
      OrderRow("2024-01-15", "10", "0", "CANCELLED"),
      OrderRow("2019-12-31", "5", "1", "COMPLETED"),
      OrderRow("garbage", "10", "", "COMPLETED"),
      OrderRow("2024-01-15", "abc", "5", "BOOKED") }

NotifRow(sent, cust, event) ==
    [datetime_sent |-> sent, CustomerId |-> cust, NotificationEvent |-> event]

NotifRowPool ==
    { NotifRow("2024-01-15", "c1", "send_dashboard"),
      NotifRow("01/28/2024", "c1", "estimates_sent"),
      NotifRow("2024-01-15", "c2", "send_dashboard"),
      NotifRow("2024-01-15", "c1", "reminder"),
      NotifRow("garbage", "c1", "send_dashboard"),
      NotifRow("2024-02-20", "c2", "estimates_sent") }

SeqsUpTo(S, n) == UNION {[1..k -> S] : k \in 0..n}

\* pd.DataFrame(records): each row gets its position as index.
DataFrame(rows) == [i \in 1..Len(rows) |-> [index |-> i, cells |-> rows[i]]]

(***************************************************************************)
(* data.py: attribution_data                                               *)
(***************************************************************************)
\* data.py:39-45: parse "Time Period", derive YearMonth.
AttrParseDates(df) ==
    Map(df, LAMBDA r :
        LET dt == ToDatetimeMixed(r.cells.TimePeriod)
        IN  [index |-> r.index, cells |-> r.cells,
             TimePeriod |-> dt, YearMonth |-> StrftimeYearMonth(dt)])

\* data.py:48-49: the numeric columns are coerced, NaN is left in place.
AttrNumeric(cell) == ToNumeric(cell)

\* data.py:50
RowCostPerLead(cc, inq) == FillNa0(ReplaceInf0(DivRound(cc, inq, 1)))

\* data.py:51-52
RowROI(tja, cc) == FillNa0(ReplaceInf0(DivRound(Sub(tja, cc), cc, 100)))

\* data.py:54-55
DisplaySource(source, campaign) == IF campaign = "N/A" THEN source ELSE campaign

\* data.py:48-55
AttrCoerce(df) ==
    Map(df, LAMBDA r :
        LET c == r.cells
            inq == AttrNumeric(c.Inquiries)
            tja == AttrNumeric(c.TotalJobAmount)
            cc == AttrNumeric(c.CampaignCost)
        IN  [index |-> r.index, TimePeriod |-> r.TimePeriod, YearMonth |-> r.YearMonth,
             Source |-> c.Source, CampaignName |-> c.CampaignName,
             DisplaySource |-> DisplaySource(c.Source, c.CampaignName),
             Inquiries |-> inq,
             PricingSent |-> AttrNumeric(c.PricingSent),
             Orders |-> AttrNumeric(c.Orders),
             PaidOrders |-> AttrNumeric(c.PaidOrders),
             TotalJobAmount |-> tja,
             CampaignCost |-> cc,
             CostPerLead |-> RowCostPerLead(cc, inq),
             ROI_numeric |-> RowROI(tja, cc)])

YearMonths(df) == Map(df, LAMBDA r : r.YearMonth)

(***************************************************************************)
(* data.py: orders_data                                                    *)
(***************************************************************************)
\* data.py:71
OrderNumeric(cell) == FillNa0(ToNumeric(cell))

\* data.py:65-72
OrdersDerive(df) ==
    Map(df, LAMBDA r :
        LET dt == ToDatetimeMixed(r.cells.timeslot_datetime)
            price == OrderNumeric(r.cells.ServicesPrice)
            disc == OrderNumeric(r.cells.discount_amount)
        IN  [index |-> r.index, timeslot_datetime |-> dt,
             YearMonth |-> StrftimeYearMonth(dt),
             ServicesPrice |-> price, discount_amount |-> disc,
             OrderTotal |-> Sub(price, disc), status |-> r.cells.status])

\* data.py:73
NotCancelled(r) == r.status # "CANCELLED"

\* data.py:74: NaT has year NaN, and NaN >= 2020 is False.
YearAtLeast2020(r) == r.timeslot_datetime # NaT /\ r.timeslot_datetime.y >= 2020

\* data.py:65-74
OrdersNormalize(df) ==
    Filter(Filter(OrdersDerive(df), NotCancelled), YearAtLeast2020)

(***************************************************************************)
(* data.py: notifications_data, pricing_sent_data                          *)
(***************************************************************************)
AllowedEvents == {"send_dashboard", "estimates_sent"}

\* data.py:90-94
NotifParse(df) ==
    Map(df, LAMBDA r :
        LET dt == ToDatetimeMixed(r.cells.datetime_sent)
        IN  [index |-> r.index, datetime_sent |-> dt,
             YearMonth |-> StrftimeYearMonth(dt),
             CustomerId |-> r.cells.CustomerId,
             NotificationEvent |-> r.cells.NotificationEvent])

\* data.py:96
EventAllowed(r) == r.NotificationEvent \in AllowedEvents

\* Variant of DropDuplicates: every row is kept.
DropDuplicatesKeepAll(df) == df

\* data.py:98: keep the first row of each (Customer id, YearMonth); NaN keys
\* compare equal in drop_duplicates.
RECURSIVE DropDuplicates(_)
DropDuplicates(df) ==
    IF df = <<>> THEN <<>>
    ELSE LET init == DropDuplicates(SubSeq(df, 1, Len(df) - 1))
             r == df[Len(df)]
         IN  IF \E p \in Range(init) :
                    p.CustomerId = r.CustomerId /\ p.YearMonth = r.YearMonth
             THEN init
             ELSE Append(init, r)

\* groupby("YearMonth") keys: NaN keys are dropped, groups come in str order.
GroupLabels(df) ==
    SortSeq(SetToSeq(Range(YearMonths(df)) \ {NullLabel}), LabelStrLess)

\* data.py:100
PricingSentByMonth(df) ==
    Map(GroupLabels(df), LAMBDA l :
        [YearMonth |-> l,
         PricingSent |-> Num(Cardinality({i \in 1..Len(df) : df[i].YearMonth = l}))])

\* data.py:90-98
NotifNormalize(df) == DropDuplicates(Filter(NotifParse(df), EventAllowed))


(***************************************************************************)
(* Initial state: the session starts, nothing is loaded.                   *)
(***************************************************************************)
NoQuery == [start_month |-> NullLabel, end_month |-> NullLabel, aggregation_type |-> ""]
NoDisplay == [status |-> "none", monthly |-> <<>>, agg |-> <<>>]

Init ==
    /\ pc = "credentials"
    /\ raw_attribution = <<>>
    /\ raw_orders = <<>>
    /\ raw_notifications = <<>>
    /\ data_bound = {}
    /\ data_attribution_data = <<>>
    /\ data_orders_data = <<>>
    /\ data_notifications_data = <<>>
    /\ data_pricing_sent_data = <<>>
    /\ import_error = ""
    /\ attribution_data = <<>>
    /\ orders_data = <<>>
    /\ pricing_sent_data = <<>>
    /\ diagnostics = {}
    /\ query = NoQuery
    /\ result = "idle"
    /\ agg_data = <<>>
    /\ monthly_agg = <<>>
    /\ revenue_by_yearmonth = <<>>
    /\ display = NoDisplay
    /\ session_tables = <<<<>>, <<>>, <<>>>>

\* An exception leaves data.py: the module body stops where it is.
Raise(e) ==
    /\ pc' = "data_raised"
    /\ import_error' = e

(***************************************************************************)
(* data.py, step by step.                                                  *)
(***************************************************************************)
\* data.py:14-26: the credentials load, or the exception is re-raised.
LoadCredentials ==
    /\ pc = "credentials"
    /\ \/ /\ pc' = "authorize"
          /\ UNCHANGED import_error
       \/ Raise("CredentialsError")
    /\ UNCHANGED <<rawVars, data_bound, data_attribution_data, data_orders_data,
                   data_notifications_data, data_pricing_sent_data, appVars, historyVars,
                   diagnostics, queryVars>>

\* data.py:28
Authorize ==
    /\ pc = "authorize"
    /\ \/ /\ pc' = "fetch_attribution"
          /\ UNCHANGED import_error
       \/ Raise("AuthorizationError")
    /\ UNCHANGED <<rawVars, data_bound, data_attribution_data, data_orders_data,
                   data_notifications_data, data_pricing_sent_data, appVars, historyVars,
                   diagnostics, queryVars>>

\* data.py:32-36: open the spreadsheet and worksheet, read the rows.  An
\* empty sheet gives a frame without columns and ["Time Period"] raises.
FetchAttribution ==
    /\ pc = "fetch_attribution"
    /\ \/ /\ Raise("WorksheetError")
          /\ UNCHANGED <<raw_attribution, data_bound, data_attribution_data>>
       \/ \E rows \in SeqsUpTo(AttrRowPool, MaxRows) :
             /\ raw_attribution' = rows
             /\ data_attribution_data' = DataFrame(rows)
             /\ data_bound' = data_bound \cup {"attribution_data"}
             /\ IF rows = <<>>
                THEN Raise("KeyError")
                ELSE pc' = "parse_attribution" /\ UNCHANGED import_error
    /\ UNCHANGED <<raw_orders, raw_notifications, data_orders_data,
                   data_notifications_data, data_pricing_sent_data, appVars, historyVars,
                   diagnostics, queryVars>>

\* data.py:39-47: dates and YearMonth; sorted(unique()) raises TypeError
\* when a null label stands next to a str label.
ParseAttributionDates ==
    /\ pc = "parse_attribution"
    /\ data_attribution_data' = AttrParseDates(data_attribution_data)
    /\ IF SortedStrRaises(Unique(YearMonths(data_attribution_data')))
       THEN Raise("TypeError")
       ELSE pc' = "coerce_attribution" /\ UNCHANGED import_error
    /\ UNCHANGED <<rawVars, data_bound, data_orders_data, data_notifications_data,
                   data_pricing_sent_data, appVars, historyVars, diagnostics, queryVars>>

\* data.py:48-55
CoerceAttribution ==
    /\ pc = "coerce_attribution"
    /\ data_attribution_data' = AttrCoerce(data_attribution_data)
    /\ pc' = "fetch_orders"
    /\ UNCHANGED <<rawVars, data_bound, data_orders_data, data_notifications_data,
                   data_pricing_sent_data, import_error, appVars, historyVars, diagnostics,
                   queryVars>>

\* data.py:59-62
FetchOrders ==
    /\ pc = "fetch_orders"
    /\ \/ /\ Raise("WorksheetError")
          /\ UNCHANGED <<raw_orders, data_bound, data_orders_data>>
       \/ \E rows \in SeqsUpTo(OrderRowPool, MaxRows - Len(raw_attribution)) :
             /\ raw_orders' = rows
             /\ data_orders_data' = DataFrame(rows)
             /\ data_bound' = data_bound \cup {"orders_data"}
             /\ IF rows = <<>>
                THEN Raise("KeyError")
                ELSE pc' = "normalize_orders" /\ UNCHANGED import_error
    /\ UNCHANGED <<raw_attribution, raw_notifications, data_attribution_data,
                   data_notifications_data, data_pricing_sent_data, appVars, historyVars,
                   diagnostics, queryVars>>

\* data.py:65-80: after the two filters no null label is left, so the
\* sorted(unique()) of line 80 cannot raise.
NormalizeOrders ==
    /\ pc = "normalize_orders"
    /\ data_orders_data' = OrdersNormalize(data_orders_data)
    /\ IF SortedStrRaises(Unique(YearMonths(data_orders_data')))
       THEN Raise("TypeError")
       ELSE pc' = "fetch_notifications" /\ UNCHANGED import_error
    /\ UNCHANGED <<rawVars, data_bound, data_attribution_data,
                   data_notifications_data, data_pricing_sent_data, appVars, historyVars,
                   diagnostics, queryVars>>

\* data.py:84-87
FetchNotifications ==
    /\ pc = "fetch_notifications"
    /\ \/ /\ Raise("WorksheetError")
          /\ UNCHANGED <<raw_notifications, data_bound, data_notifications_data>>
       \/ \E rows \in SeqsUpTo(NotifRowPool, MaxRows - Len(raw_attribution) - Len(raw_orders)) :
             /\ raw_notifications' = rows
             /\ data_notifications_data' = DataFrame(rows)
             /\ data_bound' = data_bound \cup {"notifications_data"}
             /\ IF rows = <<>>
                THEN Raise("KeyError")
                ELSE pc' = "normalize_notifications" /\ UNCHANGED import_error
    /\ UNCHANGED <<raw_attribution, raw_orders, data_attribution_data,
                   data_orders_data, data_pricing_sent_data, appVars, historyVars,
                   diagnostics, queryVars>>

\* data.py:90-106: filter, deduplicate, count per month; the
\* sorted(unique()) of line 106 raises on a null label next to a str label.
NormalizeNotifications ==
    /\ pc = "normalize_notifications"
    /\ data_notifications_data' = NotifNormalize(data_notifications_data)
    /\ data_pricing_sent_data' = PricingSentByMonth(data_notifications_data')
    /\ data_bound' = data_bound \cup {"pricing_sent_data"}
    /\ IF SortedStrRaises(Unique(YearMonths(data_notifications_data')))
       THEN Raise("TypeError")
       ELSE pc' = "summary" /\ UNCHANGED import_error
    /\ UNCHANGED <<rawVars, data_attribution_data, data_orders_data, appVars, historyVars,
                   diagnostics, queryVars>>

\* data.py:108-114
Summary ==
    /\ pc = "summary"
    /\ pc' = "data_done"
    /\ UNCHANGED <<rawVars, dataVars, appVars, historyVars, diagnostics, queryVars>>

(***************************************************************************)
(* app.py: import with fallback.                                           *)
(***************************************************************************)
\* app.py:18: data.py ran to its end, the three names are bound.
ImportData ==
    /\ pc = "data_done"
    /\ attribution_data' = data_attribution_data
    /\ orders_data' = data_orders_data
    /\ pricing_sent_data' = data_pricing_sent_data
    /\ session_tables' = <<attribution_data', orders_data', pricing_sent_data'>>
    /\ pc' = "loaded_check"
    /\ UNCHANGED <<rawVars, dataVars, diagnostics, queryVars>>

\* The state of a data module that was never run, or that was discarded.
DataUnloaded ==
    /\ raw_attribution' = <<>>
    /\ raw_orders' = <<>>
    /\ raw_notifications' = <<>>
    /\ data_bound' = {}
    /\ data_attribution_data' = <<>>
    /\ data_orders_data' = <<>>
    /\ data_notifications_data' = <<>>
    /\ data_pricing_sent_data' = <<>>
    /\ import_error' = ""

\* Variant of ImportFallback: the tables data.py had bound before the
\* exception are kept, only the others are empty.
ImportFallbackKeepsLoaded ==
    /\ pc = "data_raised"
    /\ diagnostics' = diagnostics \cup {"Error importing data.py", import_error}
    /\ attribution_data' = IF "attribution_data" \in data_bound
                           THEN data_attribution_data ELSE <<>>
    /\ orders_data' = IF "orders_data" \in data_bound THEN data_orders_data ELSE <<>>
    /\ pricing_sent_data' = IF "pricing_sent_data" \in data_bound
                            THEN data_pricing_sent_data ELSE <<>>
    /\ session_tables' = <<attribution_data', orders_data', pricing_sent_data'>>
    /\ DataUnloaded
    /\ pc' = "loaded_check"
    /\ UNCHANGED queryVars

\* app.py:19-23: any exception of data.py gives three empty frames and a
\* message naming the exception; the half-run module is discarded by the
\* import system.
ImportFallback ==
    /\ pc = "data_raised"
    /\ diagnostics' = diagnostics \cup {"Error importing data.py", import_error}
    /\ attribution_data' = <<>>
    /\ orders_data' = <<>>
    /\ pricing_sent_data' = <<>>
    /\ session_tables' = <<attribution_data', orders_data', pricing_sent_data'>>
    /\ DataUnloaded
    /\ pc' = "loaded_check"
    /\ UNCHANGED queryVars

\* app.py:102-105
CheckLoaded ==
    /\ pc = "loaded_check"
    /\ IF attribution_data = <<>>
       THEN /\ diagnostics' = diagnostics \cup {"No data loaded from data.py"}
            /\ pc' = "no_data"
       ELSE /\ pc' = "filters"
            /\ UNCHANGED diagnostics
    /\ UNCHANGED <<rawVars, dataVars, appVars, historyVars, queryVars>>

(***************************************************************************)
(* app.py: prepare_data                                                    *)
(***************************************************************************)
\* str order of the Source / Campaign Name values of the model.
NameAlphabetical == <<"facebook", "google", "organic", "spring">>
NameRank(n) == CHOOSE i \in 1..Len(NameAlphabetical) : NameAlphabetical[i] = n
NameStrLess(a, b) == NameRank(a) < NameRank(b)

Column(df, F(_)) == Map(df, F)

\* app.py:47-48: the distinct labels in chronological order of their
\* parsed-back dates.
ChronoLess(a, b) == DateLess(ToDatetimeYearMonth(a), ToDatetimeYearMonth(b))
AllMonths(attr) == SortSeq(Unique(YearMonths(attr)), ChronoLess)

\* Variant of IndexOf: a missing element is taken for the first one.
IndexOfDefaultFirst(s, x) ==
    IF x \in Range(s) THEN CHOOSE i \in 1..Len(s) : s[i] = x /\ \A j \in 1..(i - 1) : s[j] # x
    ELSE 1

\* list.index(x); 0 stands for the ValueError of a missing element.
IndexOf(s, x) ==
    IF x \in Range(s) THEN CHOOSE i \in 1..Len(s) : s[i] = x /\ \A j \in 1..(i - 1) : s[j] # x
    ELSE 0

\* app.py:52: all_months[start_idx:end_idx + 1]
SelectedMonths(all_months, start_idx, end_idx) == SubSeq(all_months, start_idx, end_idx)

\* Variant of FilterMonths: no row is left out.
FilterMonthsKeepAll(df, months) == df

\* app.py:56: rows whose YearMonth is one of the selected months.
FilterMonths(df, months) == Filter(df, LAMBDA r : r.YearMonth \in Range(months))

\* app.py:58
AggKey(aggregation_type) == IF aggregation_type = "source" THEN "Source" ELSE "Display Source"
KeyOf(r, agg_key) == IF agg_key = "Source" THEN r.Source ELSE r.DisplaySource

\* app.py:61, 78
CostPerLead(cc, inq) == FillNa0(DivRound(cc, inq, 1))
\* app.py:62, 79
ConversionRate(orders, ps) == FillNa0(DivRound(orders, ps, 100))
\* app.py:63, 80
BookingRate(ps, inq) == FillNa0(DivRound(ps, inq, 100))
\* app.py:64-65, 81-82
ROINumeric(tja, cc) == FillNa0(DivRound(Sub(tja, cc), cc, 100))

\* app.py:66, 83: the apply raises when int(x * 100) raises for some row.
ROIRaises(df) == \E r \in Range(df) : IntRaises(r.ROI_numeric)

\* app.py:67
MonthLabel(start_month, end_month) ==
    IF start_month # end_month THEN <<start_month, end_month>> ELSE <<start_month>>

\* app.py:59-65, 67-68: one row per key value, in str order of the keys.
AggData(filtered_attr, agg_key, start_month, end_month) ==
    LET keys == SortSeq(SetToSeq({KeyOf(r, agg_key) : r \in Range(filtered_attr)}),
                        NameStrLess)
    IN  Map(keys, LAMBDA g :
          LET rows == Filter(filtered_attr, LAMBDA r : KeyOf(r, agg_key) = g)
              inq == SumNum(Column(rows, LAMBDA r : r.Inquiries))
              ps == SumNum(Column(rows, LAMBDA r : r.PricingSent))
              ord == SumNum(Column(rows, LAMBDA r : r.Orders))
              paid == SumNum(Column(rows, LAMBDA r : r.PaidOrders))
              tja == SumNum(Column(rows, LAMBDA r : r.TotalJobAmount))
              cc == SumNum(Column(rows, LAMBDA r : r.CampaignCost))
          IN  [agg_key |-> agg_key, DisplaySource |-> g,
               Inquiries |-> inq, PricingSent |-> ps, Orders |-> ord,
               PaidOrders |-> paid, TotalJobAmount |-> tja, CampaignCost |-> cc,
               CostPerLead |-> CostPerLead(cc, inq),
               ConversionRate |-> ConversionRate(ord, ps),
               BookingRate |-> BookingRate(ps, inq),
               ROI_numeric |-> ROINumeric(tja, cc),
               Month |-> MonthLabel(start_month, end_month)])

\* left merge on YearMonth followed by fillna(0): the value of the month's
\* row in the right table, 0 when the month has no row there.
MergedCell(right, l, F(_)) ==
    IF \E r \in Range(right) : r.YearMonth = l
    THEN FillNa0(F(CHOOSE r \in Range(right) : r.YearMonth = l))
    ELSE Num(0)

\* app.py:71-82, before the sort: one row per non-null label of the table
\* that is grouped, in str order of the labels.
MonthlyAgg(grouped_attr, pricing, orders) ==
    Map(GroupLabels(grouped_attr), LAMBDA l :
        LET rows == Filter(grouped_attr, LAMBDA r : r.YearMonth = l)
            orows == Filter(orders, LAMBDA r : r.YearMonth = l)
            inq == SumNum(Column(rows, LAMBDA r : r.Inquiries))
            ord == SumNum(Column(rows, LAMBDA r : r.Orders))
            cc == SumNum(Column(rows, LAMBDA r : r.CampaignCost))
            tja == SumNum(Column(rows, LAMBDA r : r.TotalJobAmount))
            ps == MergedCell(pricing, l, LAMBDA r : r.PricingSent)
        IN  [YearMonth |-> l, Inquiries |-> inq, NewOrders |-> ord,
             CampaignCost |-> cc, TotalJobAmount |-> tja,
             PricingSent |-> ps,
             OrderTotal |-> SumNum(Column(orows, LAMBDA r : r.OrderTotal)),
             TotalOrders |-> Len(orows),
             CostPerLead |-> CostPerLead(cc, inq),
             ConversionRate |-> ConversionRate(ord, ps),
             BookingRate |-> BookingRate(ps, inq),
             ROI_numeric |-> ROINumeric(tja, cc)])

\* app.py:86-90: parse_date raises when neither format parses the label.
ParseDate(l) == ToDatetimeYearMonth(l)
ParseDateRaises(df) == \E r \in Range(df) : ParseDate(r.YearMonth) = NaT

\* Variant of SortByDate: the rows stay in the order of the grouping.
SortByDateSkipped(df) == df

\* app.py:92
SortByDate(df) ==
    SortSeq(df, LAMBDA a, b : DateLess(ParseDate(a.YearMonth), ParseDate(b.YearMonth)))

\* Variant of MonthlySource: the monthly rollup grouped from the whole table.
MonthlySourceWholeTable(attr, filtered_attr) == attr

\* app.py:71: the table the monthly rollup is grouped from.
MonthlySource(attr, filtered_attr) == filtered_attr

\* app.py:95-96
RevenueByYearMonth(orders, months) ==
    LET filtered_orders == FilterMonths(orders, months)
    IN  Map(GroupLabels(filtered_orders), LAMBDA l :
          [YearMonth |-> l,
           OrderTotal |-> SumNum(Column(Filter(filtered_orders, LAMBDA r : r.YearMonth = l),
                                        LAMBDA r : r.OrderTotal))])

Outcome(res, agg, monthly, revenue, warn) ==
    [result |-> res, agg_data |-> agg, monthly_agg |-> monthly,
     revenue_by_yearmonth |-> revenue, warnings |-> warn]

\* app.py:43-45: the guard on the empty attribution table.
EmptyGuard(attr) == attr = <<>>

\* app.py:41-98: how a call ends and what it returns; a call that raises
\* returns no table.
PrepareData(attr, orders, pricing, start_month, end_month, aggregation_type) ==
    IF EmptyGuard(attr)
    THEN Outcome("returned", <<>>, <<>>, <<>>, {"Attribution data is empty!"})
    ELSE
    LET all_months == AllMonths(attr)
        start_idx == IndexOf(all_months, start_month)
        end_idx == IndexOf(all_months, end_month)
        selected_months == SelectedMonths(all_months, start_idx, end_idx)
        filtered_attr == FilterMonths(attr, selected_months)
        agg == AggData(filtered_attr, AggKey(aggregation_type), start_month, end_month)
        monthly == MonthlyAgg(MonthlySource(attr, filtered_attr), pricing, orders)
    IN  IF start_idx = 0 \/ end_idx = 0
        THEN Outcome("ValueError", <<>>, <<>>, <<>>, {})
        ELSE IF ROIRaises(agg) \/ ROIRaises(monthly)
        THEN Outcome("OverflowError", <<>>, <<>>, <<>>, {})
        ELSE IF ParseDateRaises(monthly)
        THEN Outcome("DateParseError", <<>>, <<>>, <<>>, {})
        ELSE Outcome("returned", agg, SortByDate(monthly),
                     RevenueByYearMonth(orders, selected_months), {})

\* Arguments of the calls of the model: str labels, each of them missing
\* from the attribution data of some sessions.
MonthArgs == {Label("Apr", 2023), Label("Jan", 2024), Label("Feb", 2024)}
AggregationTypes == {"source", "campaign"}

\* Variant of SessionTablesAfterPrepare: the selections of app.py:56 and 95
\* are written back to the tables of the session.
SessionTablesFilteredInPlace(attr, orders, pricing, start_month, end_month) ==
    LET all_months == AllMonths(attr)
        start_idx == IndexOf(all_months, start_month)
        end_idx == IndexOf(all_months, end_month)
        selected_months == SelectedMonths(all_months, start_idx, end_idx)
    IN  IF EmptyGuard(attr) \/ start_idx = 0 \/ end_idx = 0
        THEN <<attr, orders, pricing>>
        ELSE <<FilterMonths(attr, selected_months),
               FilterMonths(orders, selected_months), pricing>>

\* app.py:41-98: the three tables of the session after a call.  The function
\* has no global statement and assigns to none of the three names; the
\* selections (56, 95), groupby (59, 71), merge (73, 75) and reset_index
\* give new frames, and every column assignment (61-68, 76-83) is on one of
\* those new frames.
SessionTablesAfterPrepare(attr, orders, pricing, start_month, end_month) ==
    <<attr, orders, pricing>>

(***************************************************************************)
(* app.py: format_table_data and the two tables of the page                *)
(***************************************************************************)
\* app.py:32: the text f"${int(x):,}" of the cell x.
Currency(x) == [k |-> "currency", v |-> x.v]
\* app.py:35, 37: the text f"{int(x * 100)}%" of the cell x, v its hundredths.
Percent(x) == [k |-> "percent", v |-> x.v]

\* app.py:30, 33: the columns of the model's rows that are formatted.
CurrencyColumns == {"TotalJobAmount", "CampaignCost", "CostPerLead", "OrderTotal"}
RateColumns == {"ConversionRate", "BookingRate"}

\* app.py:30-37: int(x) raises on a cell that is not finite.
FormatRaises(df) ==
    \E r \in Range(df) :
        \E c \in (CurrencyColumns \cup RateColumns \cup {"ROI_numeric"}) \cap DOMAIN r :
            IntRaises(r[c])

\* app.py:30-37 on one row: the columns that are present are replaced by
\* their texts, ROI is written from ROI_numeric, the others are kept.
FormatRow(r) ==
    [c \in DOMAIN r \cup {"ROI"} |->
        IF c \in CurrencyColumns THEN Currency(r[c])
        ELSE IF c \in RateColumns THEN Percent(r[c])
        ELSE IF c = "ROI" THEN Percent(r.ROI_numeric)
        ELSE r[c]]

\* app.py:26-38: the frame that is returned; an empty frame is returned as
\* it is.
FormatTableData(df) ==
    IF df = <<>> THEN df ELSE [i \in 1..Len(df) |-> FormatRow(df[i])]

\* app.py:29: the frame of the caller after the call; the columns are
\* assigned on a copy.
FormatArgumentAfter(df) == df

\* app.py:298-315: the Monthly Summary and the Source/Campaign Summary of a
\* run whose query returned; the first format_table_data that raises ends
\* the run.
Display(monthly, agg) ==
    IF FormatRaises(monthly)
    THEN [status |-> "OverflowError", monthly |-> <<>>, agg |-> <<>>]
    ELSE IF FormatRaises(agg)
    THEN [status |-> "OverflowError", monthly |-> FormatTableData(monthly), agg |-> <<>>]
    ELSE [status |-> "shown", monthly |-> FormatTableData(monthly),
          agg |-> FormatTableData(agg)]

\* A run of the page on the tables of the session: the call of prepare_data
\* (app.py:122; the function takes any arguments, also on the empty tables
\* of the fallback) and, when it returned, the display of monthly_agg
\* (app.py:300-306, sorted again and formatted) and of agg_data (312-313).
CallPrepareData ==
    /\ pc \in {"no_data", "filters"}
    /\ result = "idle"
    /\ \E s \in MonthArgs, e \in MonthArgs, t \in AggregationTypes :
          LET out == PrepareData(attribution_data, orders_data, pricing_sent_data, s, e, t)
              after == SessionTablesAfterPrepare(attribution_data, orders_data,
                                                 pricing_sent_data, s, e)
              sorted_monthly == SortByDate(out.monthly_agg)
          IN  /\ query' = [start_month |-> s, end_month |-> e, aggregation_type |-> t]
              /\ result' = out.result
              /\ attribution_data' = after[1]
              /\ orders_data' = after[2]
              /\ pricing_sent_data' = after[3]
              /\ revenue_by_yearmonth' = out.revenue_by_yearmonth
              /\ diagnostics' = diagnostics \cup out.warnings
              /\ IF out.result = "returned"
                 THEN /\ display' = Display(sorted_monthly, out.agg_data)
                      /\ monthly_agg' = FormatArgumentAfter(sorted_monthly)
                      /\ agg_data' = IF FormatRaises(sorted_monthly)
                                     THEN out.agg_data
                                     ELSE FormatArgumentAfter(out.agg_data)
                 ELSE /\ display' = NoDisplay
                      /\ monthly_agg' = out.monthly_agg
                      /\ agg_data' = out.agg_data
    /\ UNCHANGED <<pc, rawVars, dataVars, historyVars>>

\* The page is run again (a widget changed): the page and the locals of
\* the last run are gone.  The imported data module is kept when its import
\* succeeded; a failed import is tried again from the start.
Rerun ==
    /\ pc \in {"no_data", "filters"}
    /\ result # "idle"
    /\ query' = NoQuery
    /\ result' = "idle"
    /\ agg_data' = <<>>
    /\ monthly_agg' = <<>>
    /\ revenue_by_yearmonth' = <<>>
    /\ display' = NoDisplay
    /\ diagnostics' = {}
    /\ IF pc = "filters"
       THEN UNCHANGED <<pc, rawVars, dataVars, appVars, historyVars>>
       ELSE /\ pc' = "credentials"
            /\ UNCHANGED <<rawVars, dataVars, appVars, historyVars>>

Next ==
    \/ LoadCredentials
    \/ Authorize
    \/ FetchAttribution
    \/ ParseAttributionDates
    \/ CoerceAttribution
    \/ FetchOrders
    \/ NormalizeOrders
    \/ FetchNotifications
    \/ NormalizeNotifications
    \/ Summary
    \/ ImportData
    \/ ImportFallback
    \/ CheckLoaded
    \/ CallPrepareData
    \/ Rerun

Spec == Init /\ [][Next]_vars


(***************************************************************************)
(* Vocabulary of the properties.                                           *)
(***************************************************************************)
\* prepare_data returned its three tables to the caller.
Returned == result = "returned"

\* The month a str label names, counted in months.
MonthNo(l) == l.y * 12 + (CHOOSE i \in 1..12 : MonthAbbr[i] = l.b)

\* The label lies in the range the last call selected.
InRange(l) ==
    /\ l # NullLabel
    /\ MonthNo(query.start_month) <= MonthNo(l)
    /\ MonthNo(l) <= MonthNo(query.end_month)

\* The str labels of a table.
LabelsOf(df) == {r.YearMonth : r \in Range(df)} \ {NullLabel}

\* Sum of a set of <<row index, cell>> pairs, a NaN cell counting as 0.
RECURSIVE SumPairs(_)
SumPairs(S) ==
    IF S = {} THEN 0
    ELSE LET p == CHOOSE p \in S : TRUE
         IN  (IF IsNum(p[2]) THEN p[2].v ELSE 0) + SumPairs(S \ {p})

\* data.py ran to its end and app.py holds its three tables.
FullyLoaded ==
    /\ data_bound = {"attribution_data", "orders_data", "notifications_data",
                     "pricing_sent_data"}
    /\ import_error = ""
    /\ attribution_data = data_attribution_data
    /\ orders_data = data_orders_data
    /\ pricing_sent_data = data_pricing_sent_data

AllEmpty == attribution_data = <<>> /\ orders_data = <<>> /\ pricing_sent_data = <<>>

AppRunning == pc \in {"loaded_check", "no_data", "filters"}

(***************************************************************************)
(* C1.  In every row of the grouped rollup and of the monthly rollup each  *)
(* of the four ratios is exactly 0 whenever its denominator is 0, whatever *)
(* the numerator, and computing the ratios and the ROI percent string      *)
(* never raises.                                                           *)
(***************************************************************************)
ZeroDenominatorRatiosAreZero(inq, ps, cc, r) ==
    /\ inq = Num(0) => r.CostPerLead = Num(0) /\ r.BookingRate = Num(0)
    /\ ps = Num(0) => r.ConversionRate = Num(0)
    /\ cc = Num(0) => r.ROI_numeric = Num(0)

C1_ZeroDenominatorGivesZero ==
    /\ result # "OverflowError"
    /\ \A r \in Range(agg_data) :
          ZeroDenominatorRatiosAreZero(r.Inquiries, r.PricingSent, r.CampaignCost, r)
    /\ \A r \in Range(monthly_agg) :
          ZeroDenominatorRatiosAreZero(r.Inquiries, r.PricingSent, r.CampaignCost, r)

(***************************************************************************)
(* C2.  A date that cannot be parsed in a single raw row never makes the   *)
(* load of data.py fail: the only failures of a load are those of the      *)
(* extraction (credentials, authorization, worksheet, empty sheet).        *)
(***************************************************************************)
Unparseable(cell) == ToDatetimeMixed(cell) = NaT

HasUnparseableDate ==
    \/ \E r \in Range(raw_attribution) : Unparseable(r.TimePeriod)
    \/ \E r \in Range(raw_orders) : Unparseable(r.timeslot_datetime)
    \/ \E r \in Range(raw_notifications) : Unparseable(r.datetime_sent)

C2_UnparseableDateNeverFatal ==
    (pc = "data_raised" /\ HasUnparseableDate) =>
        import_error \in {"CredentialsError", "AuthorizationError",
                          "WorksheetError", "KeyError"}


(***************************************************************************)
(* C3.  The monthly rollup that prepare_data returns has exactly one row   *)
(* for each distinct YearMonth label of the attribution data that lies in  *)
(* the selected range [start_month, end_month], and no row for a label     *)
(* outside it; the row's Inquiries, New Orders, Campaign Cost and Total    *)
(* Job Amount are the sums over all attribution rows of that month (a      *)
(* missing value counting as 0).                                           *)
(***************************************************************************)
AttrRowsOf(l) == {r \in Range(attribution_data) : r.YearMonth = l}

MonthlySumsMatch(r) ==
    LET rows == AttrRowsOf(r.YearMonth)
    IN  /\ r.Inquiries = Num(SumPairs({<<a.index, a.Inquiries>> : a \in rows}))
        /\ r.NewOrders = Num(SumPairs({<<a.index, a.Orders>> : a \in rows}))
        /\ r.CampaignCost = Num(SumPairs({<<a.index, a.CampaignCost>> : a \in rows}))
        /\ r.TotalJobAmount = Num(SumPairs({<<a.index, a.TotalJobAmount>> : a \in rows}))

OneRowPerLabel(df) ==
    \A i, j \in 1..Len(df) : df[i].YearMonth = df[j].YearMonth => i = j

C3_MonthlyRollupCoversSelectedRange ==
    Returned =>
        /\ LabelsOf(monthly_agg) = {l \in LabelsOf(attribution_data) : InRange(l)}
        /\ OneRowPerLabel(monthly_agg)
        /\ \A r \in Range(monthly_agg) : MonthlySumsMatch(r)

\* C3 as the claim states it: one row for every label of the attribution
\* data, also for the labels outside the selected range.
C3_MonthlyRollupCoversAllMonths ==
    Returned =>
        /\ LabelsOf(monthly_agg) = LabelsOf(attribution_data)
        /\ OneRowPerLabel(monthly_agg)
        /\ \A r \in Range(monthly_agg) : MonthlySumsMatch(r)

\* A returned monthly rollup with a row, while another month of the
\* attribution data lies outside the selected range.
C3_Witness ==
    /\ Returned
    /\ monthly_agg # <<>>
    /\ \E l \in LabelsOf(attribution_data) : ~InRange(l)


(***************************************************************************)
(* C4.  When a step of data.py fails, app.py goes on with its three tables *)
(* empty together and a diagnostic shown; app.py never holds some loaded   *)
(* tables next to empty ones, and prepare_data only ever runs on the three *)
(* tables of a complete load or on three empty tables.                     *)
(***************************************************************************)
C4_FailedLoadLeavesAllTablesEmpty ==
    /\ AppRunning =>
          \/ FullyLoaded /\ attribution_data # <<>>
          \/ AllEmpty /\ "Error importing data.py" \in diagnostics
    /\ ~AppRunning => AllEmpty /\ result = "idle"

\* prepare_data ran on the empty tables left by a load that failed while
\* normalizing, after other tables had been loaded.
C4_Witness ==
    /\ pc = "no_data"
    /\ "TypeError" \in diagnostics
    /\ AllEmpty
    /\ Returned

(***************************************************************************)
(* C5.  On a non-empty attribution table prepare_data fails with an error  *)
(* and returns no table whenever start_month or end_month is not one of    *)
(* the YearMonth labels of the attribution data; on an empty attribution   *)
(* table it returns three empty tables without any error, whatever the     *)
(* endpoints.  The two outcomes are distinct.                              *)
(***************************************************************************)
EndpointMissing ==
    \/ query.start_month \notin LabelsOf(attribution_data)
    \/ query.end_month \notin LabelsOf(attribution_data)

NoTables == agg_data = <<>> /\ monthly_agg = <<>> /\ revenue_by_yearmonth = <<>>

C5_MissingEndpointRaisesOnLoadedData ==
    result # "idle" =>
        /\ (attribution_data # <<>> /\ EndpointMissing) =>
              result = "ValueError" /\ NoTables
        /\ attribution_data = <<>> =>
              /\ Returned
              /\ NoTables
              /\ "Attribution data is empty!" \in diagnostics
        /\ result = "ValueError" => attribution_data # <<>> /\ EndpointMissing

\* C5 as the claim states it: a missing endpoint always gives the error,
\* also on an empty attribution table.
C5_MissingEndpointAlwaysRaises ==
    (result # "idle" /\ EndpointMissing) => result = "ValueError" /\ NoTables

\* A call on loaded data whose start month is a label and whose end month
\* is not, ended by the error.
C5_Witness ==
    /\ result = "ValueError"
    /\ attribution_data # <<>>
    /\ query.start_month \in LabelsOf(attribution_data)
    /\ query.end_month \notin LabelsOf(attribution_data)

(***************************************************************************)
(* C6.  After the deduplication at most one notification row survives for  *)
(* every (Customer id, YearMonth) pair; it is the first row of the pair in *)
(* source order among the rows of an allowed event type; and the Pricing   *)
(* Sent count of each month is the number of distinct customers with at    *)
(* least one allowed notification in that month.                           *)
(***************************************************************************)
RawNotifAllowed(k) ==
    raw_notifications[k].NotificationEvent \in {"send_dashboard", "estimates_sent"}
RawNotifLabel(k) ==
    StrftimeYearMonth(ToDatetimeMixed(raw_notifications[k].datetime_sent))
RawNotifPair(k) == <<raw_notifications[k].CustomerId, RawNotifLabel(k)>>
AllowedRawNotifs == {k \in 1..Len(raw_notifications) : RawNotifAllowed(k)}

Deduplicated == "pricing_sent_data" \in data_bound

C6_OneNotificationPerCustomerMonth ==
    Deduplicated =>
        LET dn == data_notifications_data
            ps == data_pricing_sent_data
        IN  /\ \A i, j \in 1..Len(dn) :
                  (dn[i].CustomerId = dn[j].CustomerId /\ dn[i].YearMonth = dn[j].YearMonth)
                      => i = j
            /\ \A r \in Range(dn) :
                  /\ r.index \in AllowedRawNotifs
                  /\ RawNotifPair(r.index) = <<r.CustomerId, r.YearMonth>>
                  /\ \A k \in AllowedRawNotifs :
                        RawNotifPair(k) = <<r.CustomerId, r.YearMonth>> => r.index <= k
            /\ \A k \in AllowedRawNotifs :
                  \E r \in Range(dn) : RawNotifPair(k) = <<r.CustomerId, r.YearMonth>>
            /\ OneRowPerLabel(ps)
            /\ LabelsOf(ps) = {RawNotifLabel(k) : k \in AllowedRawNotifs} \ {NullLabel}
            /\ \A p \in Range(ps) :
                  /\ p.YearMonth # NullLabel
                  /\ p.PricingSent =
                        Num(Cardinality({raw_notifications[k].CustomerId :
                                k \in {n \in AllowedRawNotifs : RawNotifLabel(n) = p.YearMonth}}))

\* Two allowed sends to the same customer in the same month, counted once.
C6_Witness ==
    /\ Deduplicated
    /\ \E k1, k2 \in AllowedRawNotifs :
          /\ k1 # k2
          /\ RawNotifPair(k1) = RawNotifPair(k2)
          /\ RawNotifLabel(k1) # NullLabel
          /\ \E p \in Range(data_pricing_sent_data) :
                p.YearMonth = RawNotifLabel(k1) /\ p.PricingSent = Num(1)


(***************************************************************************)
(* C7.  In every normalized table each designated numeric column holds a   *)
(* number in every row, a raw value that is not numeric or is missing is   *)
(* stored as 0, and the per-row derived values (Cost per Lead,             *)
(* ROI_numeric, Order Total) are what they would be with 0 in place of     *)
(* the invalid value.                                                      *)
(***************************************************************************)
\* The number the claim stores for a cell: its value, 0 when it has none.
ZeroIfInvalid(cell) == IF ToNumeric(cell) = NaN THEN Num(0) ELSE ToNumeric(cell)

AttrRowNumbersCoerced(r) ==
    LET c == raw_attribution[r.index]
    IN  /\ r.Inquiries = ZeroIfInvalid(c.Inquiries)
        /\ r.PricingSent = ZeroIfInvalid(c.PricingSent)
        /\ r.Orders = ZeroIfInvalid(c.Orders)
        /\ r.PaidOrders = ZeroIfInvalid(c.PaidOrders)
        /\ r.TotalJobAmount = ZeroIfInvalid(c.TotalJobAmount)
        /\ r.CampaignCost = ZeroIfInvalid(c.CampaignCost)
        /\ r.CostPerLead =
              RowCostPerLead(ZeroIfInvalid(c.CampaignCost), ZeroIfInvalid(c.Inquiries))
        /\ r.ROI_numeric =
              RowROI(ZeroIfInvalid(c.TotalJobAmount), ZeroIfInvalid(c.CampaignCost))

OrderRowNumbersCoerced(r) ==
    LET c == raw_orders[r.index]
    IN  /\ r.ServicesPrice = ZeroIfInvalid(c.ServicesPrice)
        /\ r.discount_amount = ZeroIfInvalid(c.discount_amount)
        /\ r.OrderTotal =
              Num(ZeroIfInvalid(c.ServicesPrice).v - ZeroIfInvalid(c.discount_amount).v)

C7_InvalidNumbersStoredAsZero ==
    (AppRunning /\ FullyLoaded) =>
        /\ \A r \in Range(attribution_data) : AttrRowNumbersCoerced(r)
        /\ \A r \in Range(orders_data) : OrderRowNumbersCoerced(r)

(***************************************************************************)
(* C8.  For every query that returns, the sum of Inquiries over the rows   *)
(* of the grouped rollup equals the sum of Inquiries over the attribution  *)
(* rows whose YearMonth lies in the selected range, for both grouping      *)
(* keys: no in-range row is lost or counted twice by the grouping.         *)
(***************************************************************************)
InRangeAttrRows == {a \in Range(attribution_data) : InRange(a.YearMonth)}

QueryKeyOf(a) ==
    IF query.aggregation_type = "source" THEN a.Source
    ELSE IF a.CampaignName = "N/A" THEN a.Source ELSE a.CampaignName

C8_GroupedInquiriesSumToRange ==
    Returned =>
        /\ SumPairs({<<i, agg_data[i].Inquiries>> : i \in 1..Len(agg_data)})
              = SumPairs({<<a.index, a.Inquiries>> : a \in InRangeAttrRows})
        /\ \A i, j \in 1..Len(agg_data) :
              agg_data[i].DisplaySource = agg_data[j].DisplaySource => i = j
        /\ {g.DisplaySource : g \in Range(agg_data)} = {QueryKeyOf(a) : a \in InRangeAttrRows}

\* A returned grouped rollup over a range that takes in one attribution row
\* with inquiries and leaves out another one.
C8_Witness ==
    /\ Returned
    /\ \E a \in InRangeAttrRows : IsNum(a.Inquiries) /\ a.Inquiries.v > 0
    /\ \E a \in Range(attribution_data) \ InRangeAttrRows :
          IsNum(a.Inquiries) /\ a.Inquiries.v > 0
    /\ agg_data # <<>>

(***************************************************************************)
(* C9.  After loading, the active orders table has no row of status        *)
(* CANCELLED and no row dated before 2020, and it holds every raw order    *)
(* row that is neither cancelled nor dated before 2020, with Order Total   *)
(* = Services price - discount amount.                                     *)
(***************************************************************************)
RawOrderDate(i) == ToDatetimeMixed(raw_orders[i].timeslot_datetime)
RawOrderCancelled(i) == raw_orders[i].status = "CANCELLED"
RawOrderBefore2020(i) == RawOrderDate(i) # NaT /\ RawOrderDate(i).y < 2020

C9_ActiveOrdersExactlyTheUncancelledRecent ==
    (AppRunning /\ FullyLoaded) =>
        /\ \A r \in Range(orders_data) :
              /\ r.status # "CANCELLED"
              /\ ~(r.timeslot_datetime # NaT /\ r.timeslot_datetime.y < 2020)
        /\ \A i \in 1..Len(raw_orders) :
              (~RawOrderCancelled(i) /\ ~RawOrderBefore2020(i)) =>
                  \E r \in Range(orders_data) :
                      /\ r.index = i
                      /\ r.OrderTotal = Sub(r.ServicesPrice, r.discount_amount)

SessionTables == <<attribution_data, orders_data, pricing_sent_data>>

\* How the last call ended, and its three tables as the page holds them.
LastAnswer == <<result, agg_data, monthly_agg, revenue_by_yearmonth>>

\* What the arguments of the last call give on the tables of the import.
FirstAnswer ==
    LET out == PrepareData(session_tables[1], session_tables[2], session_tables[3],
                           query.start_month, query.end_month, query.aggregation_type)
    IN  <<out.result, out.agg_data, out.monthly_agg, out.revenue_by_yearmonth>>

=============================================================================
